---- MODULE Spec2Model ----
(***************************************************************************)
(* Model of graphpeeler.py: the deterministic layer expander               *)
(* get_next_layer, the probabilistic layer expander                        *)
(* get_next_layer_probabilistic and the orchestrator layer_realisation.    *)
(*                                                                         *)
(* An edge table df is a sequence of rows <<col0, col1, weight>>.          *)
(* Probabilities live on a grid: a weight w stands for w/Scale, a          *)
(* correction c for c/Scale and a uniform draw r for r/Scale, r < Scale,   *)
(* so that draws lie in [0,1).                                             *)
(***************************************************************************)
EXTENDS Integers, Sequences, FiniteSets

\* ---------------------------------------------------------------- bounds
MaxNode == 2
MaxEdges == 1
MaxN == 1
MaxCalls == 2
MaxPairCalls == 2
\* get_next_layer on its own runs on larger tables
MaxDetNode == 3
MaxDetEdges == 2
MaxDetCalls == 4

\* ------------------------------------------------------- program constants
DefaultN == 2

\* ------------------------------------------------------------ input sets
Nodes == 1..MaxNode
\* the grid of probabilities is halves: draws 0 and 1/2, weights 0, 1/2 and
\* 1, corrections 1/2 and 1, so that weight/correction is below, equal to and
\* above a draw, and below and not below 1
Scale == Cardinality({"low", "high"})
Draws == 0..(Scale - 1)
Weights == 0..Scale
Corrections == 1..Scale
RngStates == 0..(Scale * Scale - 1)
Seeds == RngStates
Rows == Nodes \X Nodes \X Weights
EdgeTables == UNION {[1..n -> Rows] : n \in 0..MaxEdges}
StartSets == SUBSET Nodes
\* the tables, and each of them with every row given twice: parallel edges
Repeated(t) == t \o t
DuplicatedTables == EdgeTables \cup {Repeated(t) : t \in EdgeTables}
PrePost == {"pre", "post"}
\* the columns of df after the first two: one weight column
WeightColumns == {"in_prop_weight"}
\* tables for get_next_layer, which reads no weight
DetNodes == 1..MaxDetNode
DetRows == DetNodes \X DetNodes \X {Scale}
DetTables == UNION {[1..n -> DetRows] : n \in 0..MaxDetEdges}
DetStartSets == SUBSET DetNodes
NArgs == {<<>>} \cup {<<k>> : k \in 0..MaxN}

\* ------------------------------------------------------ numpy.random model
\* The process-wide generator state is a pair of base-Scale digits; a draw is
\* the low digit and the state advances by rotating the digits, so that the
\* seeds between them give every sequence of two draws.

\* slip: the generator is not seeded
seed_rng_skipped(s, seed) == s

\* np.random.seed(seed): the state becomes a function of the seed alone
seed_rng(s, seed) == seed % (Scale * Scale)

rng_draw(s) == s % Scale

rng_advance(s) == (s \div Scale) + Scale * (s % Scale)

RECURSIVE rng_after(_, _)
rng_after(s, n) == IF n = 0 THEN s ELSE rng_after(rng_advance(s), n - 1)

\* slip: one draw for all the rows
rand_broadcast(s, n) == [i \in 1..n |-> rng_draw(s)]

\* np.random.rand(n): n successive draws of the global generator
rand(s, n) == [i \in 1..n |-> rng_draw(rng_after(s, i - 1))]

\* ------------------------------------------------------------- dataframe
\* slip: the column order is not reversed for 'post'
plist_fixed(prepost) == <<1, 2>>

\* df.columns[:2], reversed for prepost == 'post' (probabilistic expander)
plist(prepost) == IF prepost = "post" THEN <<2, 1>> ELSE <<1, 2>>

\* slip: the rows are not restricted to sources in visited
TryToVisit_any_source(df, p, vis) ==
    SelectSeq(df, LAMBDA e : e[p[2]] \notin vis)

\* df[(df[plist[0]].isin(visited)) & (~df[plist[1]].isin(visited))]
TryToVisit(df, p, vis) ==
    SelectSeq(df, LAMBDA e : e[p[1]] \in vis /\ e[p[2]] \notin vis)

\* slip: the weight is compared to the draw without the correction
Activates_uncorrected(w, c, r) == w * Scale > r * Scale

\* slip: a column that does not exist reads as a column of zeros
Lookup_lenient(prop_weight) == "none"

\* try_to_visit[prop_weight]: a name that is no column of df raises KeyError
Lookup(prop_weight) ==
    IF prop_weight \in WeightColumns THEN "none" ELSE "KeyError"

\* try_to_visit[prop_weight]/correction > r, one row against its draw
Activates(w, c, r) == w * Scale > r * c

\* the rows of try_to_visit kept by the boolean mask
ActuallyVisit(ttv, c, r) ==
    {i \in 1..Len(ttv) : Activates(ttv[i][3], c, r[i])}

\* set(actually_visit[plist[1]])
NextLayer(ttv, p, kept) == {ttv[i][p[2]] : i \in kept}

\* new_nodes = next_layer - visited
NewNodes(next_layer, vis) == next_layer \ vis

\* slip: visited = new_nodes
GrowVisited_overwrite(vis, new_nodes) == new_nodes

\* visited |= new_nodes
GrowVisited(vis, new_nodes) == vis \cup new_nodes

\* ------------------------------------------------------------ get_next_layer
\* slip: the column order is not reversed for 'post'
plist_det_fixed(prepost) == <<1, 2>>

\* slip: the loop runs while the last layer had nodes
DetLoop_while_new(new_nodes) == new_nodes # {}

\* while True: the condition under which the generator resumes after a yield
DetLoop(new_nodes) == TRUE

\* df.columns[:2], reversed for prepost == 'post' (deterministic expander)
plist_det(prepost) == IF prepost = "post" THEN <<2, 1>> ELSE <<1, 2>>

\* set(df[df[plist[0]].isin(visited)][plist[1]])
DetNextLayer(df, p, vis) ==
    {df[i][p[2]] : i \in {j \in 1..Len(df) : df[j][p[1]] \in vis}}

\* slip: new_nodes = next_layer
DetNewNodes_all(next_layer, vis) == next_layer

\* new_nodes = next_layer - visited
DetNewNodes(next_layer, vis) == next_layer \ vis

\* slip: visited = new_nodes
DetGrowVisited_overwrite(vis, new_nodes) == new_nodes

\* visited |= new_nodes
DetGrowVisited(vis, new_nodes) == vis \cup new_nodes

\* One next() call of the deterministic generator g; the first call builds
\* visited from start_ids.
get_next_layer(g, df, start_ids, prepost) ==
    LET p   == plist_det(prepost)
        vis == IF g.started THEN g.visited ELSE start_ids
        new == DetNewNodes(DetNextLayer(df, p, vis), vis)
    IN  [gen       |-> [started |-> TRUE, visited |-> DetGrowVisited(vis, new)],
         new_nodes |-> new]

\* --------------------------------------------- get_next_layer_probabilistic
\* A generator object: its body has not run before the first next() call.
NewGenerator == [started |-> FALSE, visited |-> {}]

\* One next() call.  g is the generator, s the global numpy state.  The first
\* call runs the body from its top: it seeds the global generator and builds
\* visited from start_ids.  The result carries the generator and the global
\* state after the call and the yielded pair, or the exception that line 32
\* raises after line 31 has drawn: then nothing is yielded and visited is as
\* it was.
get_next_layer_probabilistic(g, s, df, start_ids, prop_weight, prepost, seed, correction) ==
    LET s0      == IF g.started THEN s ELSE seed_rng(s, seed)
        p       == plist(prepost)
        vis     == IF g.started THEN g.visited ELSE start_ids
        ttv     == TryToVisit(df, p, vis)
        r       == rand(s0, Len(ttv))
        error   == Lookup(prop_weight)
        kept    == ActuallyVisit(ttv, correction, r)
        nl      == NextLayer(ttv, p, kept)
        new     == NewNodes(nl, vis)
    IN  IF error # "none"
        THEN [gen          |-> [started |-> TRUE, visited |-> vis],
              rng          |-> rng_after(s0, Len(ttv)),
              new_nodes    |-> {},
              try_to_visit |-> <<>>,
              r            |-> r,
              error        |-> error]
        ELSE [gen          |-> [started |-> TRUE,
                                visited |-> GrowVisited(vis, new)],
              rng          |-> rng_after(s0, Len(ttv)),
              new_nodes    |-> new,
              try_to_visit |-> ttv,
              r            |-> r,
              error        |-> "none"]

\* ------------------------------------------------------ layer_realisation
VARIABLES
    df, start_ids, prepost, seed, correction, n_arg,   \* the call's arguments
    prop_weight,
    rng,                                               \* numpy's global state
    gen,                                               \* prob_layer_generator
    pc, N, pl, pl_dict, layer_change_count, prev_unvisited,
    next_layer, try_to_visit,
    calls, cand_hist, visited_hist, r_hist, stop_rule, \* history of the run
    run, first_dict,                                   \* repeated call
    det, det_out, det_run, det_first,                  \* a get_next_layer generator
    exp, exp_out                                       \* probabilistic generators

args == <<df, start_ids, prepost, seed, correction, n_arg, prop_weight>>
locals == <<gen, pc, N, pl, pl_dict, layer_change_count, prev_unvisited,
            next_layer, try_to_visit>>
hist == <<calls, cand_hist, visited_hist, r_hist, stop_rule>>
expanders == <<det, det_out, det_run, det_first, exp, exp_out>>
vars == <<args, rng, locals, hist, run, first_dict, expanders>>

\* if N == None: N = 2
StabilityWindow(n) == IF n = <<>> THEN DefaultN ELSE n[1]

\* slip: the reset runs before the increment
ChangeCount_reset_first(count, len, prev) ==
    IF len # prev THEN 1 ELSE count + 1

\* slip: layer_change_count += 1 is missing
ChangeCount_no_increment(count, len, prev) ==
    IF len # prev THEN 0 ELSE count

\* layer_change_count += 1; reset to 0 when the candidate count changed
ChangeCount(count, len, prev) ==
    IF (IF len - prev >= 0 THEN len - prev ELSE prev - len) > 0
    THEN 0 ELSE count + 1

\* slip: the break on an empty candidate table is missing
NoCandidatesLeft_never(len) == FALSE

\* if len(try_to_visit)==0: break
NoCandidatesLeft(len) == len = 0

\* slip: pl_dict[pl] = next_layer runs before pl += 1
RecordLayer_old_index(d, k, layer) ==
    [i \in DOMAIN d |-> IF i = k - 1 THEN layer ELSE d[i]]

\* pl += 1; pl_dict[pl] = next_layer, k being pl after the increment
RecordLayer(d, k, layer) ==
    [i \in 0..k |-> IF i = k THEN layer ELSE d[i]]

\* if layer_change_count == N: break
Stable(count, n) == count = n

ExpIds == {1, 2}

\* the generators a caller drives itself, none of them started
NoExpanders ==
    /\ det = NewGenerator
    /\ det_out = <<>>
    /\ det_run = 1
    /\ det_first = <<>>
    /\ exp = [i \in ExpIds |-> NewGenerator]
    /\ exp_out = [i \in ExpIds |-> <<>>]

\* the state of a call once lines 50-57 have run
Entry ==
    /\ gen = NewGenerator
    /\ pc = "loop"
    /\ N = StabilityWindow(n_arg)
    /\ pl = 0
    /\ pl_dict = [i \in {0} |-> start_ids]
    /\ layer_change_count = 0
    /\ prev_unvisited = 0
    /\ next_layer = {}
    /\ try_to_visit = <<>>
    /\ calls = 0
    /\ cand_hist = <<>>
    /\ visited_hist = <<>>
    /\ r_hist = <<>>
    /\ stop_rule = "none"

\* a call layer_realisation(df, start_ids, prepost, seed, prop_weight,
\* correction, N), stopped before its loop
Call ==
    /\ df \in EdgeTables
    /\ start_ids \in StartSets
    /\ prepost \in PrePost
    /\ seed \in Seeds
    /\ correction \in Corrections
    /\ n_arg \in NArgs
    /\ prop_weight \in WeightColumns
    /\ run = 1
    /\ first_dict = <<>>
    /\ Entry
    /\ NoExpanders

\* numpy's state when the process starts, one state among RngStates; the
\* code never reads it: line 22 seeds the generator before line 31 draws
AtStart == Scale - 1

Init == Call /\ rng = AtStart

\* one iteration of the while loop of layer_realisation
Round ==
    /\ pc = "loop"
    /\ LET y     == get_next_layer_probabilistic(gen, rng, df, start_ids,
                                  prop_weight, prepost, seed, correction)
           len   == Len(y.try_to_visit)
           count == ChangeCount(layer_change_count, len, prev_unvisited)
       IN  IF y.error # "none"
           THEN \* the exception of next() leaves layer_realisation
               /\ gen' = y.gen
               /\ rng' = y.rng
               /\ calls' = calls + 1
               /\ pc' = "raised"
               /\ stop_rule' = y.error
               /\ UNCHANGED <<next_layer, try_to_visit, pl, pl_dict,
                              layer_change_count, prev_unvisited,
                              cand_hist, visited_hist, r_hist>>
           ELSE
           /\ gen' = y.gen
           /\ rng' = y.rng
           /\ next_layer' = y.new_nodes
           /\ try_to_visit' = y.try_to_visit
           /\ pl' = pl + 1
           /\ pl_dict' = RecordLayer(pl_dict, pl + 1, y.new_nodes)
           /\ layer_change_count' = count
           /\ calls' = calls + 1
           /\ cand_hist' = Append(cand_hist, len)
           /\ visited_hist' = Append(visited_hist, y.gen.visited)
           /\ r_hist' = Append(r_hist, y.r)
           /\ IF NoCandidatesLeft(len)
              THEN /\ pc' = "returned"
                   /\ stop_rule' = "empty"
                   /\ UNCHANGED prev_unvisited
              ELSE IF Stable(count, N)
              THEN /\ pc' = "returned"
                   /\ stop_rule' = "stable"
                   /\ UNCHANGED prev_unvisited
              ELSE /\ pc' = "loop"
                   /\ prev_unvisited' = len
                   /\ UNCHANGED stop_rule
    /\ UNCHANGED <<args, N, run, first_dict, expanders>>

\* the caller keeps the returned map and calls layer_realisation again with
\* the same arguments; numpy's global state is whatever the first call left
Rerun ==
    /\ pc = "returned"
    /\ run = 1
    /\ run' = 2
    /\ first_dict' = pl_dict
    /\ gen' = NewGenerator
    /\ pc' = "loop"
    /\ N' = StabilityWindow(n_arg)
    /\ pl' = 0
    /\ pl_dict' = [i \in {0} |-> start_ids]
    /\ layer_change_count' = 0
    /\ prev_unvisited' = 0
    /\ next_layer' = {}
    /\ try_to_visit' = <<>>
    /\ calls' = 0
    /\ cand_hist' = <<>>
    /\ visited_hist' = <<>>
    /\ r_hist' = <<>>
    /\ stop_rule' = "none"
    /\ UNCHANGED <<args, rng, expanders>>

Next == Round

Spec == Init /\ [][Next]_vars

\* a call whose prop_weight names no column of df
InitMissing ==
    /\ df \in EdgeTables
    /\ start_ids \in StartSets
    /\ prepost \in PrePost
    /\ seed \in Seeds
    /\ correction \in Corrections
    /\ n_arg \in NArgs
    /\ prop_weight = "no_such_column"
    /\ run = 1
    /\ first_dict = <<>>
    /\ Entry
    /\ NoExpanders
    /\ rng = AtStart

SpecMissing == InitMissing /\ [][Next]_vars

\* ------------------------------------------- a caller driving the generators
\* layer_realisation is not called: its locals stay as they are here
NotCalled ==
    /\ gen = NewGenerator
    /\ pc = "caller"
    /\ N = DefaultN
    /\ n_arg = <<>>
    /\ pl = 0
    /\ pl_dict = <<>>
    /\ layer_change_count = 0
    /\ prev_unvisited = 0
    /\ next_layer = {}
    /\ try_to_visit = <<>>
    /\ calls = 0
    /\ cand_hist = <<>>
    /\ visited_hist = <<>>
    /\ r_hist = <<>>
    /\ stop_rule = "none"
    /\ run = 1
    /\ first_dict = <<>>

\* get_next_layer(df, start_ids, prepost) has been called: the generator
\* exists, its body has not run
InitDet ==
    /\ df \in EdgeTables
    /\ start_ids \in StartSets
    /\ prepost \in PrePost
    /\ seed = 0
    /\ correction = Scale
    /\ prop_weight \in WeightColumns
    /\ rng = AtStart
    /\ NotCalled
    /\ NoExpanders

\* get_next_layer_probabilistic(df, start_ids, prop_weight, prepost, seed,
\* correction) has been called, once for each generator of exp, and
\* get_next_layer(df, start_ids, prepost) once
InitProb ==
    /\ df \in EdgeTables
    /\ start_ids \in StartSets
    /\ prepost \in PrePost
    /\ seed \in Seeds
    /\ correction \in Corrections
    /\ prop_weight \in WeightColumns
    /\ rng = AtStart
    /\ NotCalled
    /\ NoExpanders

\* next(g) on the get_next_layer generator
DetNext ==
    /\ pc = "caller"
    /\ Len(det_out) < MaxCalls
    /\ LET y == get_next_layer(det, df, start_ids, prepost)
       IN  /\ det' = y.gen
           /\ det_out' = Append(det_out, y.new_nodes)
    /\ UNCHANGED <<args, rng, locals, hist, run, first_dict,
                   det_run, det_first, exp, exp_out>>

\* the caller keeps the layers it got and calls get_next_layer again with
\* the same arguments
DetRerun ==
    /\ pc = "caller"
    /\ det_run = 1
    /\ Len(det_out) >= 1
    /\ det_run' = 2
    /\ det_first' = det_out
    /\ det' = NewGenerator
    /\ det_out' = <<>>
    /\ UNCHANGED <<args, rng, locals, hist, run, first_dict, exp, exp_out>>

\* next(g) on the i-th get_next_layer_probabilistic generator
ProbNext(i) ==
    /\ pc = "caller"
    \* a generator that raised is closed: it yields nothing more
    /\ \A k \in 1..Len(exp_out[i]) : exp_out[i][k].error = "none"
    /\ LET y == get_next_layer_probabilistic(exp[i], rng, df, start_ids,
                                  prop_weight, prepost, seed, correction)
       IN  /\ exp' = [exp EXCEPT ![i] = y.gen]
           /\ rng' = y.rng
           /\ exp_out' = [exp_out EXCEPT ![i] =
                             Append(@, [new_nodes    |-> y.new_nodes,
                                        try_to_visit |-> y.try_to_visit,
                                        r            |-> y.r,
                                        error        |-> y.error])]
    /\ UNCHANGED <<args, locals, hist, run, first_dict,
                   det, det_out, det_run, det_first>>

\* zip(get_next_layer(..), get_next_layer_probabilistic(..)): the
\* deterministic generator is advanced first, then the probabilistic one
ZipDet ==
    /\ Len(det_out) = Len(exp_out[1])
    /\ DetNext

ZipProb ==
    /\ Len(exp_out[1]) < Len(det_out)
    /\ Len(exp_out[1]) < MaxCalls
    /\ ProbNext(1)

\* get_next_layer alone, on the larger tables
InitDetAlone ==
    /\ df \in DetTables
    /\ start_ids \in DetStartSets
    /\ prepost \in PrePost
    /\ seed = 0
    /\ correction = Scale
    /\ prop_weight \in WeightColumns
    /\ rng = AtStart
    /\ NotCalled
    /\ NoExpanders

\* next(g) on a get_next_layer generator that is resumed after each yield
\* for as long as its loop condition holds
DetStep ==
    /\ pc = "caller"
    /\ Len(det_out) < MaxDetCalls
    /\ \A k \in 1..Len(det_out) : DetLoop(det_out[k])
    /\ LET y == get_next_layer(det, df, start_ids, prepost)
       IN  /\ det' = y.gen
           /\ det_out' = Append(det_out, y.new_nodes)
    /\ UNCHANGED <<args, rng, locals, hist, run, first_dict,
                   det_run, det_first, exp, exp_out>>

NextDet == DetStep

SpecDet == InitDetAlone /\ [][NextDet]_vars

NextZip == ZipDet \/ ZipProb

\* both generators built over a table that may have parallel edges
InitZip ==
    /\ df \in DuplicatedTables
    /\ start_ids \in StartSets
    /\ prepost \in PrePost
    /\ seed \in Seeds
    /\ correction \in Corrections
    /\ prop_weight \in WeightColumns
    /\ rng = AtStart
    /\ NotCalled
    /\ NoExpanders

SpecZip == InitZip /\ [][NextZip]_vars

\* two probabilistic generators alive in one process, advanced in any order
PairNext(i) ==
    /\ Len(exp_out[i]) < MaxPairCalls
    /\ ProbNext(i)

NextPair == \E i \in ExpIds : PairNext(i)

SpecPair == InitProb /\ [][NextPair]_vars

\* the same call made twice in one process: layer_realisation, whose second
\* call finds numpy's state as the first call left it, or get_next_layer
InitRepeat == Init \/ InitDet

NextRepeat == Round \/ Rerun \/ DetNext \/ DetRerun

SpecRepeat == InitRepeat /\ [][NextRepeat]_vars

\* ------------------------------------------------------------- properties
Last == Len(cand_hist)

\* candidate-edge count of round i, the count before round 1 being 0
Cnt(i) == IF i = 0 THEN 0 ELSE cand_hist[i]

\* number of consecutive rounds, ending with round k, whose candidate count
\* equals the count of the round before
RECURSIVE EqRun(_)
EqRun(k) ==
    IF k = 0 THEN 0
    ELSE IF Cnt(k) # Cnt(k - 1) THEN 0 ELSE EqRun(k - 1) + 1

LayersUpTo(k) == UNION {pl_dict[i] : i \in 0..k}

\* C1: the layers recorded so far are pairwise disjoint, and for every k the
\* union of layers 0..k is the expander's visited set after k rounds.
C1_LayersPartitionVisited ==
    /\ \A i, j \in DOMAIN pl_dict :
          i # j => pl_dict[i] \cap pl_dict[j] = {}
    /\ \A k \in 1..pl : LayersUpTo(k) = visited_hist[k]
    /\ gen.started => LayersUpTo(pl) = gen.visited

\* a returned map of three rounds in which a round took a node in
C1_Witness ==
    /\ pc = "returned"
    /\ pl >= 3
    /\ pl_dict[0] # {}
    /\ \E k \in 1..pl : pl_dict[k] # {}

\* C2: the first round whose candidate-edge count is 0 is the last round:
\* the call has returned in it, no expander call follows it, and its empty
\* layer is the last entry of the layer map.
C2_StopsAtFirstEmptyRound ==
    \A i \in 1..Last :
        cand_hist[i] = 0 =>
            /\ i = Last
            /\ pc = "returned"
            /\ calls = i
            /\ DOMAIN pl_dict = 0..i
            /\ pl_dict[i] = {}

\* a run that had candidates for two rounds and none in the third
C2_Witness ==
    /\ pc = "returned"
    /\ stop_rule = "empty"
    /\ Last = 3
    /\ cand_hist[1] > 0
    /\ cand_hist[2] > 0

\* C3 as stated: with N = 1 a run that stops in a round without candidate
\* edges stops in the second of two consecutive such rounds, not in the first.
C3_StopsAtSecondEmptyRound ==
    (N = 1 /\ pc = "returned" /\ Cnt(Last) = 0) =>
        (Last >= 2 /\ Cnt(Last - 1) = 0)

\* C3 amended: with N = 1 the run stops in the first round without candidate
\* edges, so that no round before the last one is without candidate edges and
\* two consecutive such rounds never occur.
C3_StopsAtFirstEmptyRoundN1 ==
    N = 1 =>
        /\ \A i \in 1..(Last - 1) : cand_hist[i] # 0
        /\ (Last >= 1 /\ cand_hist[Last] = 0) => stop_rule = "empty"

\* N = 1 and the run stopped in its second round, the first without candidates
C3_Witness ==
    /\ N = 1
    /\ pc = "returned"
    /\ Last = 2
    /\ cand_hist[1] > 0
    /\ cand_hist[2] = 0

C5_StopsAfterNEmptyLayers ==
    \A k \in 1..pl :
        (N >= 1 /\ k >= N /\ \A j \in (k - N + 1)..k : pl_dict[j] = {}) =>
            (k = pl /\ pc = "returned")

\* C6 as stated: a round that takes in new nodes resets the stability counter
\* to 0, and for N >= 1 the stability stop fires only after N consecutive
\* rounds that added no nodes.
C6_NewNodesResetCount ==
    N >= 1 =>
        /\ (pl >= 1 /\ pl_dict[pl] # {}) =>
              (layer_change_count = 0 /\ stop_rule # "stable")
        /\ stop_rule = "stable" =>
              (pl >= N /\ \A j \in (pl - N + 1)..pl : pl_dict[j] = {})

\* C7: every candidate edge of a round whose weight is at least the
\* correction has its target in the new layer of that round.
C7_CertainActivation ==
    \A i \in 1..Len(try_to_visit) :
        try_to_visit[i][3] >= correction =>
            try_to_visit[i][plist(prepost)[2]] \in next_layer

\* a candidate edge of weight = correction < 1 that met the highest draw
C7_Witness ==
    /\ pl >= 1
    /\ \E i \in 1..Len(try_to_visit) :
          /\ try_to_visit[i][3] = correction
          /\ correction < Scale
          /\ r_hist[pl][i] = Scale - 1
          /\ try_to_visit[i][plist(prepost)[2]] \in next_layer

Min(a, b) == IF a <= b THEN a ELSE b

\* C8: with correction = 1 and every weight = 1 the k-th new layer of the
\* probabilistic expander is the k-th new_nodes of the deterministic one,
\* for the same table, start set and direction.
C8_FullActivationIsDeterministic ==
    (correction = Scale /\ \A i \in 1..Len(df) : df[i][3] = Scale) =>
        \A k \in 1..Min(Len(det_out), Len(exp_out[1])) :
            exp_out[1][k].new_nodes = det_out[k]

\* full activation of an edge against the highest draw, both generators
\* advanced to the round after it
C8_Witness ==
    /\ correction = Scale
    /\ \A i \in 1..Len(df) : df[i][3] = Scale
    /\ Len(exp_out[1]) = MaxCalls
    /\ Len(det_out) = MaxCalls
    /\ det_out[1] # {}
    /\ \E i \in 1..Len(exp_out[1][1].r) : exp_out[1][1].r[i] = Scale - 1

\* C9: a second call of layer_realisation with the same arguments returns the
\* layer map of the first, and a second get_next_layer generator with the
\* same arguments yields the layers of the first.
C9_Reproducible ==
    /\ (run = 2 /\ pc = "returned") => pl_dict = first_dict
    /\ det_run = 2 =>
          \A k \in 1..Min(Len(det_out), Len(det_first)) :
              det_out[k] = det_first[k]

\* a second call has returned a map in which a candidate edge failed in
\* round 1 and activated in round 2
C9_Witness ==
    /\ run = 2
    /\ pc = "returned"
    /\ pl >= 2
    /\ cand_hist[1] > 0
    /\ pl_dict[1] = {}
    /\ pl_dict[2] # {}

\* what k next() calls yield from a probabilistic generator driven alone
RECURSIVE SoloRun(_)
SoloRun(k) ==
    IF k = 0 THEN [gen |-> NewGenerator, rng |-> AtStart, out |-> <<>>]
    ELSE LET before == SoloRun(k - 1)
             y == get_next_layer_probabilistic(before.gen, before.rng, df,
                      start_ids, prop_weight, prepost, seed, correction)
         IN  [gen |-> y.gen,
              rng |-> y.rng,
              out |-> Append(before.out,
                             [new_nodes    |-> y.new_nodes,
                              try_to_visit |-> y.try_to_visit,
                              r            |-> y.r,
                              error        |-> y.error])]

\* C10 as stated: each of two generators whose next() calls are interleaved
\* yields the pairs (new_layer, candidate_edges) it yields when driven alone.
C10_InterleavingInvisible ==
    \A i \in ExpIds :
        \A k \in 1..Len(exp_out[i]) :
            /\ exp_out[i][k].new_nodes = SoloRun(k).out[k].new_nodes
            /\ exp_out[i][k].try_to_visit = SoloRun(k).out[k].try_to_visit

\* no row of df has its 'from' endpoint in the start set
NoOutgoing ==
    \A i \in 1..Len(df) : df[i][plist(prepost)[1]] \notin start_ids

\* C11: when no edge leaves the start set, layer_realisation raises nothing,
\* makes exactly one expander call and returns {0: start set, 1: empty set}.
C11_NoOutgoingOneRound ==
    NoOutgoing =>
        /\ pc # "raised"
        /\ calls <= 1
        /\ calls = 0 => pc = "loop"
        /\ calls = 1 =>
              /\ pc = "returned"
              /\ pl_dict = [i \in 0..1 |-> IF i = 0 THEN start_ids ELSE {}]

\* a returned call whose start ids are not 'from' endpoints of a table that
\* has rows
C11_Witness ==
    /\ NoOutgoing
    /\ start_ids # {}
    /\ Len(df) >= 1
    /\ pc = "returned"
    /\ calls = 1

\* the visited set of generator g: set(start_ids) until its body has run
VisitedOf(g) == IF g.started THEN g.visited ELSE start_ids

\* C12: every next() call, of either expander, leaves visited a superset of
\* what it was, namely what it was united with the new layer the call yields.
C12_VisitedGrowsByNewLayer ==
    [][/\ Len(det_out') = Len(det_out) + 1 =>
             /\ VisitedOf(det) \subseteq VisitedOf(det')
             /\ VisitedOf(det') =
                    VisitedOf(det) \cup det_out'[Len(det_out')]
       /\ Len(exp_out'[1]) = Len(exp_out[1]) + 1 =>
             /\ VisitedOf(exp[1]) \subseteq VisitedOf(exp'[1])
             /\ VisitedOf(exp'[1]) =
                    VisitedOf(exp[1]) \cup
                        exp_out'[1][Len(exp_out'[1])].new_nodes]_vars

\* both expanders have grown their visited set and been called again
C12_Witness ==
    /\ Len(det_out) = MaxCalls
    /\ Len(exp_out[1]) = MaxCalls
    /\ start_ids # {}
    /\ det.visited # start_ids
    /\ exp[1].visited # start_ids

\* C13: entry 0 of the returned layer map is the start set.
C13_LayerZeroIsStartSet ==
    pc = "returned" => (0 \in DOMAIN pl_dict /\ pl_dict[0] = start_ids)

\* a map returned after a round that took a node in, from a start set that
\* is not empty
C13_Witness ==
    /\ pc = "returned"
    /\ start_ids # {}
    /\ pl >= 2
    /\ \E k \in 1..pl : pl_dict[k] # {}

\* C14: with a prop_weight that names no column of df the call gets past the
\* construction of the generator, the first next() raises KeyError before a
\* layer beyond layer 0 is recorded, and no layer map is returned.
C14_MissingColumnRaisesAtFirstStep ==
    /\ pc # "returned"
    /\ calls <= 1
    /\ calls = 0 => (pc = "loop" /\ gen = NewGenerator)
    /\ calls = 1 =>
          /\ pc = "raised"
          /\ stop_rule = "KeyError"
          /\ pl = 0
          /\ DOMAIN pl_dict = {0}

\* the call has raised on a table with an edge that leaves the start set
C14_Witness ==
    /\ pc = "raised"
    /\ ~NoOutgoing

\* C15: a get_next_layer generator never ends by itself, every next() call
\* yields a layer, and after one empty layer every later layer is empty.
C15_RunsForeverEmptyStaysEmpty ==
    /\ Len(det_out) < MaxDetCalls => ENABLED DetStep
    /\ \A k \in 1..Len(det_out) : \A m \in k..Len(det_out) :
          det_out[k] = {} => det_out[m] = {}

\* layers with nodes, then an empty layer, then a further next() call
C15_Witness ==
    /\ Len(det_out) >= 4
    /\ det_out[1] # {}
    /\ det_out[2] # {}
    /\ det_out[3] = {}

\* there is a row of df from u to v in the direction of prepost
Edge(u, v) ==
    \E i \in 1..Len(df) :
        /\ df[i][IF prepost = "post" THEN 2 ELSE 1] = u
        /\ df[i][IF prepost = "post" THEN 1 ELSE 2] = v

EndPoints == UNION {{df[i][1], df[i][2]} : i \in 1..Len(df)}

\* the nodes one edge after a node of S
Successors(S) == {v \in EndPoints : \E u \in S : Edge(u, v)}

\* WalkEnds[k] is the set of nodes at the end of a walk of exactly k edges
\* from the start set
WalkEnds[k \in Nat] ==
    IF k = 0 THEN start_ids ELSE Successors(WalkEnds[k - 1])

\* the nodes whose shortest path from the start set has k edges
AtDistance(W, k) == W[k] \ UNION {W[j] : j \in 0..(k - 1)}

\* C20: the k-th layer of get_next_layer is the set of nodes at shortest
\* path distance k from the start set, and each of its nodes has a
\* predecessor in layer k-1, layer 0 being the start set.
C20_LayersAreDistanceClasses ==
    LET W == [k \in 0..Len(det_out) |-> WalkEnds[k]]
    IN  \A k \in 1..Len(det_out) :
        /\ det_out[k] = AtDistance(W, k)
        /\ \A v \in det_out[k] :
              \E u \in (IF k = 1 THEN start_ids ELSE det_out[k - 1]) : Edge(u, v)

\* a node at distance 2, against the column order, and the layers have ended
C20_Witness ==
    /\ prepost = "post"
    /\ Len(det_out) >= 3
    /\ det_out[2] # {}
    /\ det_out[3] = {}

\* the rows of df that lead from vis out of vis, by their position in df
CandidateRows(vis) ==
    {i \in 1..Len(df) : /\ df[i][IF prepost = "post" THEN 2 ELSE 1] \in vis
                        /\ df[i][IF prepost = "post" THEN 1 ELSE 2] \notin vis}

\* the j-th smallest element of the set of positions I
Nth(I, j) == CHOOSE i \in I : Cardinality({m \in I : m <= i}) = j

\* C16: a round of get_next_layer_probabilistic returns as candidates the
\* rows from the visited set of before the round out of it, in the order of
\* df and as often as they occur, draws one number per candidate row, and
\* the new layer is the set of targets of the candidate rows whose
\* weight/correction exceeds their own draw.
C16_CandidatesAndOwnDraws ==
    [][Len(exp_out'[1]) = Len(exp_out[1]) + 1 =>
          LET vis == VisitedOf(exp[1])
              I   == CandidateRows(vis)
              s0  == IF exp[1].started THEN rng ELSE seed_rng(rng, seed)
              o   == exp_out'[1][Len(exp_out'[1])]
              to  == IF prepost = "post" THEN 1 ELSE 2
          IN  /\ Len(o.try_to_visit) = Cardinality(I)
              /\ \A j \in 1..Len(o.try_to_visit) :
                    o.try_to_visit[j] = df[Nth(I, j)]
              /\ Len(o.r) = Len(o.try_to_visit)
              /\ \A j \in 1..Len(o.r) : o.r[j] = rng_draw(rng_after(s0, j - 1))
              /\ o.new_nodes =
                    {o.try_to_visit[j][to] : j \in
                        {m \in 1..Len(o.try_to_visit) :
                            o.try_to_visit[m][3] * Scale > o.r[m] * correction}}
      ]_vars

\* a round with two parallel candidate rows of one weight, of which one is
\* taken by its draw and the other is not
C16_Witness ==
    \E k \in 1..Len(exp_out[1]) :
        LET o == exp_out[1][k]
        IN  \E a, b \in 1..Len(o.try_to_visit) :
               /\ a < b
               /\ o.try_to_visit[a] = o.try_to_visit[b]
               /\ o.try_to_visit[a][3] * Scale > o.r[a] * correction
               /\ ~(o.try_to_visit[b][3] * Scale > o.r[b] * correction)

\* the table with its first two columns swapped
SwapColumns(t) == [i \in 1..Len(t) |-> <<t[i][2], t[i][1], t[i][3]>>]

OtherMode(q) == IF q = "post" THEN "pre" ELSE "post"

\* what k next() calls yield from a fresh get_next_layer generator on table
\* t in mode q
RECURSIVE DetRunOn(_, _, _)
DetRunOn(t, q, k) ==
    IF k = 0 THEN [gen |-> NewGenerator, out |-> <<>>]
    ELSE LET before == DetRunOn(t, q, k - 1)
             y == get_next_layer(before.gen, t, start_ids, q)
         IN  [gen |-> y.gen, out |-> Append(before.out, y.new_nodes)]

\* the same for a fresh get_next_layer_probabilistic generator, alone in its
\* process
RECURSIVE ProbRunOn(_, _, _)
ProbRunOn(t, q, k) ==
    IF k = 0 THEN [gen |-> NewGenerator, rng |-> AtStart, out |-> <<>>]
    ELSE LET before == ProbRunOn(t, q, k - 1)
             y == get_next_layer_probabilistic(before.gen, before.rng, t,
                      start_ids, prop_weight, q, seed, correction)
         IN  [gen |-> y.gen, rng |-> y.rng,
              out |-> Append(before.out, y.new_nodes)]

\* C17: an expander in one mode yields the layers that the expander in the
\* other mode yields on the table with its first two columns swapped, the
\* probabilistic one under the same seed.
C17_PostIsPreOnSwappedTable ==
    /\ det_out = DetRunOn(SwapColumns(df), OtherMode(prepost), Len(det_out)).out
    /\ [k \in 1..Len(exp_out[1]) |-> exp_out[1][k].new_nodes] =
           ProbRunOn(SwapColumns(df), OtherMode(prepost), Len(exp_out[1])).out

\* mode 'post' on a table whose swap is another table, and both expanders
\* have yielded a layer with nodes
C17_Witness ==
    /\ prepost = "post"
    /\ SwapColumns(df) # df
    /\ Len(det_out) >= 1
    /\ Len(exp_out[1]) >= 1
    /\ det_out[1] # {}
    /\ exp_out[1][1].new_nodes # {}

\* M: the number of distinct 'to' endpoints that are not in the start set
Targets ==
    {df[i][plist(prepost)[2]] : i \in 1..Len(df)} \ start_ids

\* C18: for N >= 1 the call makes at most (M+1)*(N+1) next() calls and
\* returns: it raises nothing, and while it has not returned it has made
\* fewer calls than that number.
C18_ReturnsWithinBound ==
    N >= 1 =>
        /\ calls <= (Cardinality(Targets) + 1) * (N + 1)
        /\ pc \in {"loop", "returned"}
        /\ pc = "loop" => calls < (Cardinality(Targets) + 1) * (N + 1)

\* a call with N >= 1 over an edge of weight 0 out of the start set has
\* returned
C18_Witness ==
    /\ N >= 1
    /\ pc = "returned"
    /\ stop_rule = "stable"
    /\ \E i \in 1..Len(df) :
          /\ df[i][3] = 0
          /\ df[i][plist(prepost)[1]] \in start_ids
          /\ df[i][plist(prepost)[2]] \notin start_ids

\* the nodes that a path along the direction of prepost reaches from the
\* start set
Reachable == UNION {WalkEnds[k] : k \in 0..Cardinality(EndPoints)}

\* C19: the union of the returned layers lies within the set of nodes
\* reachable from the start set; after a stop on a round without candidate
\* edges it is that set, and no edge leads out of it.
C19_EmptyStopReachesAll ==
    pc = "returned" =>
        LET U == LayersUpTo(pl)
        IN  /\ U \subseteq Reachable
            /\ stop_rule = "empty" =>
                  /\ U = Reachable
                  /\ \A u \in U : \A v \in EndPoints : Edge(u, v) => v \in U

\* a stop on a round without candidate edges after a round that took a node
\* in
C19_Witness ==
    /\ pc = "returned"
    /\ stop_rule = "empty"
    /\ pl >= 2
    /\ LayersUpTo(pl) # start_ids

====
